---- MODULE Spec2Model ----
(***************************************************************************)
(* A model of podmate.py: the credential store and the podcast record      *)
(* store (two SQLite tables), the login / sign-up page, and the main page  *)
(* with its upload, podcast-generation pipeline, chat and history tabs.    *)
(*                                                                         *)
(* Strings are tuples of one-character strings, so that len(), slicing,    *)
(* endswith() and replace() are computed and not assumed.                  *)
(***************************************************************************)
EXTENDS Integers, Sequences, FiniteSets, TLC

(* ------------------------------ bounds -------------------------------- *)
MaxUsers == 2          \* rows the users table may hold
MaxPodcasts == 2       \* rows the podcasts table may hold
MaxNow == 4            \* the wall clock stops advancing here (ticks)
MaxTmp == 2            \* temporary files the disk may hold
MaxMes == 3            \* messages the chat history may hold

(* ------------------------- program constants -------------------------- *)
BCRYPT_MAX == 72       \* bytes of the password bcrypt.hashpw() reads
MIN_USERNAME == 3
MIN_PASSWORD == 6
TicksPerSecond == 2    \* CURRENT_TIMESTAMP has one-second resolution

NoId == 0              \* the None that stands for "no user id"

(* ------------------------------ strings ------------------------------- *)
Rep(c, n) == [i \in 1..n |-> c]

Take(s, n) == IF Len(s) <= n THEN s ELSE SubSeq(s, 1, n)

endswith(s, suffix) ==
    /\ Len(s) >= Len(suffix)
    /\ SubSeq(s, Len(s) - Len(suffix) + 1, Len(s)) = suffix

startsAt(s, i, pat) ==
    /\ i + Len(pat) - 1 <= Len(s)
    /\ SubSeq(s, i, i + Len(pat) - 1) = pat

RECURSIVE replaceFrom(_, _, _, _)
replaceFrom(s, i, old, new) ==
    IF i > Len(s) THEN <<>>
    ELSE IF startsAt(s, i, old)
         THEN new \o replaceFrom(s, i + Len(old), old, new)
         ELSE <<s[i]>> \o replaceFrom(s, i + 1, old, new)

\* str.replace(old, new): every non-overlapping occurrence, left to right
replace(s, old, new) == replaceFrom(s, 1, old, new)

\* user names and passwords the forms and the store are exercised with
U_EMPTY == <<>>
U_AL == <<"a", "l">>
U_ANN == <<"a", "n", "n">>
U_BWAV == <<"b", ".", "w", "a", "v">>
Usernames == {U_EMPTY, U_AL, U_ANN, U_BWAV}

P_EMPTY == <<>>
P_SHORT == Rep("s", MIN_PASSWORD - 1)
P_ONE == Rep("s", MIN_PASSWORD)
P_TWO == Rep("s", MIN_PASSWORD - 1) \o <<"t">>
P_LONG_A == Rep("p", BCRYPT_MAX) \o <<"a">>
P_LONG_B == Rep("p", BCRYPT_MAX) \o <<"b">>
Passwords == {P_EMPTY, P_SHORT, P_ONE, P_TWO, P_LONG_A, P_LONG_B}

\* values bcrypt.gensalt() may draw
Salts == {"salt1", "salt2"}

\* what the store functions are called with directly
StoreUsernames == {U_ANN, U_BWAV}
StorePasswords == {P_ONE, P_TWO, P_LONG_A, P_LONG_B}

(* ------------------------------- state -------------------------------- *)
VARIABLES
    bcryptTruncates,   \* the installed bcrypt: TRUE truncates at 72 bytes, FALSE raises
    users,             \* table users: sequence of [id, username, password]
    podcasts,          \* table podcasts: sequence of rows, in rowid order
    now,               \* wall clock, in ticks
    registered,        \* history: username -> the password and id of its successful register
    last,              \* the last direct store call: what was asked and what it returned
    session,           \* st.session_state
    uploaded_file,     \* the file the uploader widget holds
    widgets,           \* the widgets the last script run drew
    tmp_files,         \* temporary copies of uploads on disk
    audio_files,       \* paths under audio_files/ on disk
    run                \* what the last script run did

appVars == <<session, uploaded_file, widgets, tmp_files, audio_files, run>>
vars == <<bcryptTruncates, users, podcasts, now, registered, last,
          session, uploaded_file, widgets, tmp_files, audio_files, run>>

(* -------------------------- credential store -------------------------- *)
\* bcrypt.hashpw(password, salt): salted, one-way, and reads no byte of the
\* password past BCRYPT_MAX
hashpw(password, salt) == [salt |-> salt, digest |-> Take(password, BCRYPT_MAX)]

\* bcrypt >= 5.0 raises ValueError on a longer password instead of truncating
hashpw_raises(password) == ~bcryptTruncates /\ Len(password) > BCRYPT_MAX

hash_password(password, salt) == hashpw(password, salt)

\* a verification that hashes under a salt of its own, not the stored one
verify_password_own_salt(password, hashed_password) ==
    hashpw(password, "salt1") = hashed_password

verify_password(password, hashed_password) ==
    hashpw(password, hashed_password.salt) = hashed_password

UserRows(tbl, username) == {i \in 1..Len(tbl) : tbl[i].username = username}

Row(tbl, username) == tbl[CHOOSE i \in UserRows(tbl, username) : TRUE]

MSG_OK == "Registration successful"
MSG_DUP == "Username already exists"
MSG_ERR == "Error"

\* register_user: [ok, msg, users]; salt is what gensalt() drew, ioFail an
\* sqlite3 error other than IntegrityError
register_user(tbl, username, password, salt, ioFail) ==
    IF ioFail \/ hashpw_raises(password)
    THEN [ok |-> FALSE, msg |-> MSG_ERR, users |-> tbl]
    ELSE IF UserRows(tbl, username) # {}
    THEN [ok |-> FALSE, msg |-> MSG_DUP, users |-> tbl]
    ELSE [ok |-> TRUE, msg |-> MSG_OK,
          users |-> Append(tbl, [id |-> Len(tbl) + 1,
                                 username |-> username,
                                 password |-> hash_password(password, salt)])]

\* authenticate_user: [ok, id, raised]; raised is the ValueError of
\* bcrypt.checkpw(), which the function does not catch
authenticate_user(tbl, username, password) ==
    IF UserRows(tbl, username) = {}
    THEN [ok |-> FALSE, id |-> NoId, raised |-> FALSE]
    ELSE LET result == tbl[CHOOSE i \in UserRows(tbl, username) : TRUE]
         IN IF hashpw_raises(password)
            THEN [ok |-> FALSE, id |-> NoId, raised |-> TRUE]
            ELSE IF verify_password(password, result.password)
            THEN [ok |-> TRUE, id |-> result.id, raised |-> FALSE]
            ELSE [ok |-> FALSE, id |-> NoId, raised |-> FALSE]

(* ------------------------- podcast record store ----------------------- *)
F_PDF == <<"n", ".", "p", "d", "f">>
F_TXT == <<"n", ".", "t", "x", "t">>
SUMMARY == "summary"
A_WAV == <<"a", ".", "w", "a", "v">>

\* DEFAULT CURRENT_TIMESTAMP: the wall clock cut to whole seconds
CURRENT_TIMESTAMP(t) == t \div TicksPerSecond

\* save_podcast: [ok, podcasts]; ioFail is any exception of the insert, which
\* the function reports with st.error and answers with False
save_podcast(tbl, user_id, title, summary, audio_path, t, ioFail) ==
    IF ioFail
    THEN [ok |-> FALSE, podcasts |-> tbl]
    ELSE [ok |-> TRUE,
          podcasts |-> Append(tbl, [id |-> Len(tbl) + 1,
                                    user_id |-> user_id,
                                    title |-> title,
                                    summary |-> summary,
                                    audio_path |-> audio_path,
                                    created_at |-> CURRENT_TIMESTAMP(t)])]

PodcastRows(tbl, user_id) == {i \in 1..Len(tbl) : tbl[i].user_id = user_id}

IsPermutation(seq, S) ==
    /\ Len(seq) = Cardinality(S)
    /\ {seq[i] : i \in 1..Len(seq)} = S

\* SELECT ... WHERE user_id = ? ORDER BY created_at DESC: the orders of the
\* matching rows (by rowid) the query may answer with; rows of equal
\* created_at come in whatever order the engine produces
SelectOrders(tbl, user_id) ==
    LET S == PodcastRows(tbl, user_id)
    IN {seq \in [1..Cardinality(S) -> S] :
          /\ IsPermutation(seq, S)
          /\ \A i, j \in 1..Len(seq) :
                i < j => tbl[seq[i]].created_at >= tbl[seq[j]].created_at}

\* get_user_podcasts: the dicts built from the rows fetched in the order `order`
get_user_podcasts(tbl, order) ==
    [k \in 1..Len(order) |->
        [title |-> tbl[order[k]].title,
         summary |-> tbl[order[k]].summary,
         audio |-> tbl[order[k]].audio_path,
         created_at |-> tbl[order[k]].created_at]]

(* ========================= the application ============================ *)
(* One script run per user interaction: Streamlit runs the file top to     *)
(* bottom with the widget that fired, st.stop() ends the run, st.rerun()   *)
(* starts it again with no widget fired.                                   *)

MAX_MB == 10           \* file_size_mb > 10
KB == 1024
MIN_API_KEY == 10      \* len(api_key) < 10

PDF == "application/pdf"
TXT == "text/plain"
PNG == "image/png"
DOT_PDF == <<".", "p", "d", "f">>
DOT_WAV == <<".", "w", "a", "v">>
DOT_MP3 == <<".", "m", "p", "3">>

NoFile == [name |-> <<>>, mime |-> "", size |-> 0]
NoPath == <<>>

Message(level, text) == <<level, text>>
GREETING == [role |-> "ai", content |-> "greeting"]

SessionInit ==
    [logged_in |-> FALSE, username |-> <<>>, user_id |-> NoId, mes |-> <<>>,
     session_podcasts |-> <<>>, groq_api_key |-> <<>>,
     api_key_validated |-> FALSE, validation_message |-> ""]

\* what the last script run of this session did: the widget that fired and
\* what was typed into it, the collaborators called in order, the messages
\* rendered in order, the temporary file it created (0: none), the path
\* speech synthesis wrote its audio to, the path handed to st.audio by the
\* pipeline, the rowid save_podcast inserted (0: none). ev is "elsewhere" once another session acted after it.
NewRun(ev, args) ==
    [ev |-> ev, args |-> args, calls |-> <<>>, shown |-> <<>>, tmp |-> 0,
     wrote |-> NoPath, played |-> NoPath, saved |-> 0]

Show(w, level, text) ==
    [w EXCEPT !.run.shown = Append(@, Message(level, text))]

Call(w, name) == [w EXCEPT !.run.calls = Append(@, name)]

(* ---------------------------- show_auth_page --------------------------- *)
\* the sign-up checks without the comparison of the two password fields
register_form_error_no_confirm(new_username, new_password, confirm_password) ==
    IF new_username = <<>> \/ new_password = <<>> THEN "Please fill in all fields"
    ELSE IF Len(new_username) < MIN_USERNAME THEN "Username must be at least 3 characters"
    ELSE IF Len(new_password) < MIN_PASSWORD THEN "Password must be at least 6 characters"
    ELSE ""

\* the checks of the sign-up form, in the order of the elif chain: the
\* message of the first one that fails, "" when the form may be submitted
register_form_error(new_username, new_password, confirm_password) ==
    IF new_username = <<>> \/ new_password = <<>> THEN "Please fill in all fields"
    ELSE IF Len(new_username) < MIN_USERNAME THEN "Username must be at least 3 characters"
    ELSE IF Len(new_password) < MIN_PASSWORD THEN "Password must be at least 6 characters"
    ELSE IF new_password # confirm_password THEN "Passwords do not match"
    ELSE ""

\* the sign-up form submitted
register_submitted(w, new_username, new_password, confirm_password, salt, ioFail) ==
    LET err == register_form_error(new_username, new_password, confirm_password)
        r == register_user(w.users, new_username, new_password, salt, ioFail)
    IN IF err # ""
       THEN Show(w, "error", err)
       ELSE IF r.ok
       THEN LET w1 == [Call(w, "register_user") EXCEPT
                         !.users = r.users,
                         !.registered[new_username] =
                            [known |-> TRUE, password |-> new_password,
                             id |-> r.users[Len(r.users)].id,
                             hash |-> r.users[Len(r.users)].password]]
            IN Show(w1, "success", r.msg)
       ELSE Show(Call(w, "register_user"), "error", r.msg)

\* the login form submitted, up to st.rerun(); an exception of
\* authenticate_user ends the run
login_submitted(w, username_input, password_input) ==
    LET r == authenticate_user(w.users, username_input, password_input)
        w0 == Call(w, "authenticate_user")
    IN IF r.raised
       THEN Show(w0, "exception", "ValueError")
       ELSE IF r.ok
       THEN Show([w0 EXCEPT !.session.logged_in = TRUE,
                            !.session.username = username_input,
                            !.session.user_id = r.id,
                            !.session.session_podcasts = <<>>,
                            !.session.mes = <<GREETING>>],
                 "success", "Welcome back")
       ELSE Show(w0, "error", "Invalid username or password")

Render(w, widget) == [w EXCEPT !.widgets = @ \cup {widget}]

\* the page with nothing fired: both forms are drawn
show_auth_page(w) == Render(Render(w, "login_form"), "register_form")

(* ------------------------------ API key -------------------------------- *)
\* validate_api_key_callback; ctorFails: Groq() or ChatGroq() raised
validate_api_key_callback(w, api_key, ctorFails) ==
    IF api_key = <<>> \/ Len(api_key) < MIN_API_KEY
    THEN [w EXCEPT !.session.api_key_validated = FALSE,
                   !.session.validation_message = "API key too short"]
    ELSE IF ~ctorFails
    THEN [Call(w, "Groq") EXCEPT !.session.groq_api_key = api_key,
                                 !.session.api_key_validated = TRUE,
                                 !.session.validation_message = "API Key validated"]
    ELSE [Call(w, "Groq") EXCEPT !.session.api_key_validated = FALSE,
                                 !.session.groq_api_key = <<>>,
                                 !.session.validation_message = "Invalid API Key"]

(* ------------------------------ pipeline ------------------------------- *)
mime_allowed(mime) == mime \in {PDF, TXT}

\* os.path.getsize(file_path) / (1024 * 1024) > 10
too_large(size) == size > MAX_MB * (KB * KB)

\* the branch that loads the text: chosen by the file's name
text_loader(file) ==
    IF endswith(file.name, DOT_PDF) THEN "PyPDFLoader" ELSE "open_read"

\* datetime.now().strftime("%Y%m%d_%H%M%S"): whole seconds
strftime(t) == <<ToString(t \div TicksPerSecond)>>

audio_path_for(username, t) ==
    <<"audio_files/">> \o username \o <<"_">> \o strftime(t) \o DOT_WAV

\* the inner try: primary synthesis, and gTTS when it raises.
\* [ok, w, audio_path]; ok = FALSE: gTTS raised too
synthesize_keeps_wav_path(w, audio_path, primaryFails, fallbackFails) ==
    LET w1 == Call(w, "tts_primary")
        w2 == Call(Show(w1, "warning", "using gTTS fallback"), "tts_fallback")
        mp3 == replace(audio_path, DOT_WAV, DOT_MP3)
    IN IF ~primaryFails
       THEN [ok |-> TRUE, audio_path |-> audio_path,
             w |-> [w1 EXCEPT !.audio_files = @ \cup {audio_path},
                              !.run.wrote = audio_path]]
       ELSE IF fallbackFails
       THEN [ok |-> FALSE, audio_path |-> audio_path, w |-> w2]
       ELSE [ok |-> TRUE, audio_path |-> audio_path,
             w |-> [w2 EXCEPT !.audio_files = @ \cup {mp3}, !.run.wrote = mp3]]

synthesize(w, audio_path, primaryFails, fallbackFails) ==
    LET w1 == Call(w, "tts_primary")
        w2 == Call(Show(w1, "warning", "using gTTS fallback"), "tts_fallback")
        mp3 == replace(audio_path, DOT_WAV, DOT_MP3)
    IN IF ~primaryFails
       THEN [ok |-> TRUE, audio_path |-> audio_path,
             w |-> [w1 EXCEPT !.audio_files = @ \cup {audio_path},
                              !.run.wrote = audio_path]]
       ELSE IF fallbackFails
       THEN [ok |-> FALSE, audio_path |-> mp3, w |-> w2]
       ELSE [ok |-> TRUE, audio_path |-> mp3,
             w |-> [w2 EXCEPT !.audio_files = @ \cup {mp3}, !.run.wrote = mp3]]

\* the tail of the try block, from st.audio on
publish(w, file, audio_path, saveFails) ==
    LET w1 == Show([w EXCEPT !.run.played = audio_path],
                   "success", "Podcast generated successfully!")
        r == save_podcast(w1.podcasts, w.session.user_id, file.name, SUMMARY,
                          audio_path, w.now, saveFails)
        w2 == Call(w1, "save_podcast")
        w3 == IF r.ok THEN [w2 EXCEPT !.podcasts = r.podcasts,
                                      !.run.saved = Len(r.podcasts)]
                      ELSE Show(w2, "error", "Error saving podcast")
    IN [Call(w3, "session_append") EXCEPT
          !.session.session_podcasts =
              Append(@, [title |-> file.name, summary |-> SUMMARY, audio |-> audio_path])]

\* the body of `if st.button("Generate Podcast")`: try / except / finally
generate_podcast(w, file, file_path, env) ==
    LET failed(x) == Show(x, "error", "Error generating podcast")
        w1 == Call(w, text_loader(file))
        w2 == Call(w1, "summarize_chain")
        s == synthesize(Show(w2, "write", "summary"),
                        audio_path_for(w.session.username, w.now),
                        env.primaryFails, env.fallbackFails)
        done == IF env.extractFails THEN failed(w1)
                ELSE IF env.summarizeFails THEN failed(w2)
                ELSE IF ~s.ok THEN failed(s.w)
                ELSE publish(s.w, file, s.audio_path, env.saveFails)
    IN [done EXCEPT !.tmp_files = @ \ {file_path}]

FreeTmp(w) == (1..MaxTmp) \ w.tmp_files

\* a rejection that reports and stops but leaves the copy on disk
reject_too_large_no_unlink(w, file_path) == Show(w, "error", "File too large")

\* lines 379-381: st.error, os.unlink, st.stop
reject_too_large(w, file_path) ==
    [Show(w, "error", "File too large") EXCEPT !.tmp_files = @ \ {file_path}]

\* tab 1, lines 362-458: [w, stopped]; stopped: st.stop() ended the run
podcast_tab(w, clicked, env) ==
    LET file == w.uploaded_file
        w0 == Render(w, "file_uploader")
        file_path == CHOOSE i \in FreeTmp(w) : \A j \in FreeTmp(w) : i <= j
        w1 == Show([w0 EXCEPT !.tmp_files = @ \cup {file_path}, !.run.tmp = file_path],
                   "success", "File uploaded successfully!")
    IN IF file = NoFile
       THEN [stopped |-> FALSE, w |-> w0]
       ELSE IF ~mime_allowed(file.mime)
       THEN [stopped |-> TRUE, w |-> Show(w0, "error", "Invalid file type")]
       ELSE IF FreeTmp(w) = {}
       THEN [stopped |-> TRUE, w |-> [w0 EXCEPT !.blocked = TRUE]]
       ELSE IF too_large(file.size)
       THEN [stopped |-> TRUE, w |-> reject_too_large(w1, file_path)]
       ELSE IF clicked
       THEN [stopped |-> FALSE,
             w |-> generate_podcast(Render(w1, "generate_button"), file, file_path, env)]
       ELSE [stopped |-> FALSE, w |-> Render(w1, "generate_button")]

(* --------------------------- the other tabs ---------------------------- *)
\* tab 2: the chat input, and one exchange when a prompt was entered
research_tab(w, prompted, agentFails) ==
    LET w0 == Render(w, "chat_input")
        answer == IF agentFails THEN "Sorry, I encountered an error" ELSE "answer"
    IN IF ~prompted THEN w0
       ELSE IF Len(w.session.mes) + 2 > MaxMes THEN [w0 EXCEPT !.blocked = TRUE]
       ELSE [Call(w0, "agent") EXCEPT
               !.session.mes = @ \o <<[role |-> "user", content |-> "prompt"],
                                      [role |-> "ai", content |-> answer]>>]

\* tab 3 reads the history and changes nothing
history_tab(w) == Call(w, "get_user_podcasts")

(* ---------------------------- show_main_app ---------------------------- *)
\* a logout that forgets the user but keeps the API key of the session
logout_keeps_api_key(w) ==
    [w EXCEPT !.session = [SessionInit EXCEPT
                              !.groq_api_key = w.session.groq_api_key,
                              !.api_key_validated = w.session.api_key_validated]]

\* lines 304-311: every key of the session state back to its initial value
logout(w) ==
    [w EXCEPT !.session = SessionInit]

\* a run that does not reach the uploader drops the file it held
\* (Streamlit forgets the state of a widget that a run does not draw)
Undrawn(w) == [w EXCEPT !.uploaded_file = NoFile]

\* st.rerun(): the next run starts with nothing drawn
Rerun(w) == [w EXCEPT !.widgets = {}]

\* show_main_app with the widget `ev` fired
show_main_app(w, ev, initFails, agentFails, env) ==
    LET w0 == Render(Render(w, "api_key_input"), "logout_button")
        missing(x) == Undrawn(Show(x, "warning", "Please enter a valid Groq API Key"))
        t1 == podcast_tab(w0, ev = "generate", env)
    IN IF ev = "logout"
       THEN show_auth_page(Undrawn(Rerun(logout(w0))))
       ELSE IF ~w0.session.api_key_validated
       THEN missing(w0)
       ELSE IF initFails
       THEN missing(Render(Render(Rerun(
               [Show(w0, "error", "Error initializing services") EXCEPT
                   !.session.api_key_validated = FALSE]),
               "api_key_input"), "logout_button"))
       ELSE IF t1.stopped
       THEN t1.w
       ELSE history_tab(research_tab(t1.w, ev = "chat", agentFails))

(* ------------------------- one run of the script ----------------------- *)
World ==
    [session |-> session, uploaded_file |-> uploaded_file, widgets |-> widgets,
     users |-> users, podcasts |-> podcasts, now |-> now, registered |-> registered,
     tmp_files |-> tmp_files, audio_files |-> audio_files, run |-> run,
     blocked |-> FALSE]

Fired(ev, args) == [World EXCEPT !.run = NewRun(ev, args), !.widgets = {}]

\* the run ends: its effects are the next state
Ends(w) ==
    /\ ~w.blocked
    /\ session' = w.session
    /\ uploaded_file' = w.uploaded_file
    /\ widgets' = w.widgets
    /\ users' = w.users
    /\ podcasts' = w.podcasts
    /\ registered' = w.registered
    /\ tmp_files' = w.tmp_files
    /\ audio_files' = w.audio_files
    /\ run' = w.run
    /\ UNCHANGED <<bcryptTruncates, now, last>>

NoEnv ==
    [extractFails |-> FALSE, summarizeFails |-> FALSE,
     primaryFails |-> FALSE, fallbackFails |-> FALSE, saveFails |-> FALSE]

\* what the collaborators of one pipeline run do; a collaborator that is
\* not reached does nothing
Envs ==
    {e \in [extractFails : BOOLEAN, summarizeFails : BOOLEAN,
            primaryFails : BOOLEAN, fallbackFails : BOOLEAN, saveFails : BOOLEAN] :
        /\ e.extractFails => ~e.summarizeFails /\ ~e.primaryFails
        /\ e.summarizeFails => ~e.primaryFails
        /\ ~e.primaryFails => ~e.fallbackFails
        /\ (e.extractFails \/ e.summarizeFails \/ e.fallbackFails) => ~e.saveFails}

LoginSubmit(username_input, password_input) ==
    /\ "login_form" \in widgets
    /\ LET w == login_submitted(Render(Fired("login", <<username_input, password_input>>),
                                       "login_form"),
                                username_input, password_input)
       IN IF w.session.logged_in
          THEN Ends(show_main_app(Rerun(w), "rerun", FALSE, FALSE, NoEnv))
          ELSE IF w.run.shown # <<>> /\ w.run.shown[1][1] = "exception"
          THEN Ends(w)
          ELSE Ends(Render(w, "register_form"))

RegisterSubmit(new_username, new_password, confirm_password, salt, ioFail) ==
    /\ "register_form" \in widgets
    /\ Len(users) < MaxUsers \/ UserRows(users, new_username) # {}
    /\ Ends(register_submitted(show_auth_page(Fired("register",
                                   <<new_username, new_password, confirm_password>>)),
                               new_username, new_password, confirm_password,
                               salt, ioFail))

LogoutClick ==
    /\ "logout_button" \in widgets
    /\ Ends(show_main_app(Fired("logout", <<>>), "logout", FALSE, FALSE, NoEnv))

ApiKeyChange(api_key, ctorFails, initFails) ==
    /\ "api_key_input" \in widgets
    /\ Ends(show_main_app(validate_api_key_callback(Fired("api_key", <<>>), api_key, ctorFails),
                          "api_key", initFails, FALSE, NoEnv))

Upload(file, initFails) ==
    /\ "file_uploader" \in widgets
    /\ file # uploaded_file
    /\ Ends(show_main_app([Fired("upload", <<>>) EXCEPT !.uploaded_file = file],
                          "upload", initFails, FALSE, NoEnv))

GenerateClick(initFails, env) ==
    /\ "generate_button" \in widgets
    /\ Len(podcasts) < MaxPodcasts
    /\ Len(session.session_podcasts) < MaxPodcasts
    /\ Ends(show_main_app(Fired("generate", <<env>>), "generate", initFails, FALSE, env))

ChatSubmit(initFails, agentFails) ==
    /\ "chat_input" \in widgets
    /\ Ends(show_main_app(Fired("chat", <<>>), "chat", initFails, agentFails, NoEnv))

(* ------------------------------- Init --------------------------------- *)
NoCall == [op |-> "none"]

Init ==
    /\ bcryptTruncates \in BOOLEAN
    /\ users = <<>>
    /\ podcasts = <<>>
    /\ now = 0
    /\ registered = [u \in Usernames |-> [known |-> FALSE]]
    /\ last = NoCall
    /\ session = SessionInit
    /\ uploaded_file = NoFile
    /\ widgets = {"login_form", "register_form"}
    /\ tmp_files = {}
    /\ audio_files = {}
    /\ run = NewRun("start", <<>>)

(* -------------------- the credential store, called -------------------- *)
Register(username, password, salt, ioFail) ==
    LET r == register_user(users, username, password, salt, ioFail)
    IN /\ Len(r.users) <= MaxUsers
       /\ users' = r.users
       /\ registered' = IF r.ok
                        THEN [registered EXCEPT ![username] =
                                 [known |-> TRUE, password |-> password,
                                  id |-> r.users[Len(r.users)].id,
                                  hash |-> r.users[Len(r.users)].password]]
                        ELSE registered
       /\ last' = [op |-> "register", username |-> username, password |-> password,
                   existed |-> UserRows(users, username) # {},
                   ioFail |-> ioFail, ok |-> r.ok, msg |-> r.msg]
       /\ UNCHANGED <<bcryptTruncates, podcasts, now, appVars>>

Authenticate(username, password) ==
    LET r == authenticate_user(users, username, password)
    IN /\ last' = [op |-> "authenticate", username |-> username, password |-> password,
                   ok |-> r.ok, id |-> r.id, raised |-> r.raised]
       /\ UNCHANGED <<bcryptTruncates, users, podcasts, now, registered, appVars>>

\* save_podcast called; the call takes time
SavePodcast(user_id, title, ioFail) ==
    LET r == save_podcast(podcasts, user_id, title, SUMMARY, A_WAV, now, ioFail)
    IN /\ Len(r.podcasts) <= MaxPodcasts
       /\ now < MaxNow
       /\ now' = now + 1
       /\ podcasts' = r.podcasts
       /\ last' = [op |-> "save", ok |-> r.ok]
       /\ UNCHANGED <<bcryptTruncates, users, registered, appVars>>

\* an append between two calls of the credential store
CredAppend(ioFail) == SavePodcast(1, F_PDF, ioFail)

CredNext ==
    \/ \E u \in StoreUsernames, p \in StorePasswords, s \in Salts, f \in BOOLEAN :
          Register(u, p, s, f)
    \/ \E u \in StoreUsernames, p \in StorePasswords : Authenticate(u, p)
    \/ \E f \in BOOLEAN : CredAppend(f)

CredSpec == Init /\ [][CredNext]_vars

(* --------------------- the podcast store, called ---------------------- *)
UserIds == 1..MaxUsers

Tick ==
    /\ now < MaxNow
    /\ now' = now + 1
    /\ UNCHANGED <<bcryptTruncates, users, podcasts, registered, last, appVars>>

ListByUser(user_id) ==
    \E order \in SelectOrders(podcasts, user_id) :
       /\ last' = [op |-> "list", user_id |-> user_id, order |-> order,
                   rows |-> get_user_podcasts(podcasts, order)]
       /\ UNCHANGED <<bcryptTruncates, users, podcasts, now, registered, appVars>>

PodNext ==
    \/ Tick
    \/ \E u \in UserIds, t \in {F_PDF, F_TXT}, f \in BOOLEAN : SavePodcast(u, t, f)
    \/ \E u \in UserIds : ListByUser(u)

PodSpec == Init /\ [][PodNext]_vars

(* ------------------------- the application, used ----------------------- *)
K_SHORT == Rep("k", MIN_API_KEY - 1)
K_GOOD == Rep("g", MIN_API_KEY)
ApiKeys == {K_SHORT, K_GOOD}

LIMIT == MAX_MB * (KB * KB)
Files ==
    { [name |-> F_PDF, mime |-> PDF, size |-> LIMIT],
      [name |-> F_TXT, mime |-> TXT, size |-> KB],
      [name |-> F_TXT, mime |-> PDF, size |-> KB],
      [name |-> F_PDF, mime |-> TXT, size |-> KB],
      [name |-> F_PDF, mime |-> PDF, size |-> LIMIT + 1],
      [name |-> F_TXT, mime |-> PNG, size |-> KB] }

\* a pipeline run that succeeded in the session of another account: what
\* it leaves in the shared database and on disk
OtherSessionGenerates(username) ==
    LET path == audio_path_for(username, now)
        r == save_podcast(podcasts, Row(users, username).id, F_TXT, SUMMARY, path, now, FALSE)
    IN /\ UserRows(users, username) # {}
       /\ session.username # username
       /\ Len(podcasts) < MaxPodcasts
       /\ podcasts' = r.podcasts
       /\ audio_files' = audio_files \cup {path}
       /\ run' = [run EXCEPT !.ev = "elsewhere"]
       /\ UNCHANGED <<bcryptTruncates, users, now, registered, last,
                      session, uploaded_file, widgets, tmp_files>>

\* the main page is exercised in the session of U_BWAV, beside an account U_ANN
Next ==
    \/ \E u \in {U_ANN, U_BWAV} : RegisterSubmit(u, P_ONE, P_ONE, "salt1", FALSE)
    \/ LoginSubmit(U_BWAV, P_ONE)
    \/ LogoutClick
    \/ \E k \in ApiKeys, c, i \in BOOLEAN : ApiKeyChange(k, c, i)
    \/ \E f \in Files \cup {NoFile}, i \in BOOLEAN : Upload(f, i)
    \/ \E env \in Envs : GenerateClick(FALSE, env)
    \/ GenerateClick(TRUE, NoEnv)
    \/ OtherSessionGenerates(U_ANN)

\* no password typed here is longer than BCRYPT_MAX, so the two builds of
\* bcrypt behave alike in this specification; it is run on one of them
AppInit == Init /\ bcryptTruncates

Spec == AppInit /\ [][Next]_vars

\* the login and sign-up forms with everything that can be typed into them
FormPasswords == {P_EMPTY, P_SHORT, P_ONE, P_LONG_A, P_LONG_B}

AuthNext ==
    \/ \E u \in Usernames, p, c \in FormPasswords : RegisterSubmit(u, p, c, "salt1", FALSE)
    \/ \E u \in Usernames, p \in FormPasswords, salt \in Salts, f \in BOOLEAN :
          RegisterSubmit(u, p, p, salt, f)
    \/ \E u \in Usernames, p \in FormPasswords : LoginSubmit(u, p)
    \/ LogoutClick

AuthSpec == Init /\ [][AuthNext]_vars

\* one browser session used by two accounts in turn: log in, enter API
\* keys, upload, generate, chat, log out, log in again
SessionUsers == {U_ANN, U_BWAV}
SessionFiles == {[name |-> F_TXT, mime |-> TXT, size |-> KB]}
SessionEnvs == {e \in Envs : ~e.summarizeFails /\ ~e.primaryFails}

SessionNext ==
    \/ \E u \in SessionUsers : RegisterSubmit(u, P_ONE, P_ONE, "salt1", FALSE)
    \/ \E u \in SessionUsers, p \in {P_ONE, P_TWO} : LoginSubmit(u, p)
    \/ LogoutClick
    \/ \E k \in ApiKeys, c, i \in BOOLEAN : ApiKeyChange(k, c, i)
    \/ \E f \in SessionFiles \cup {NoFile}, i \in BOOLEAN : Upload(f, i)
    \/ \E env \in SessionEnvs : GenerateClick(FALSE, env)
    \/ GenerateClick(TRUE, NoEnv)
    \/ \E i, a \in BOOLEAN : ChatSubmit(i, a)

SessionSpec == AppInit /\ [][SessionNext]_vars

(* ====================== claims on the two stores ====================== *)

\* C1: once register(u, p) has succeeded, authenticate(u, p) succeeds and
\* returns the identifier the account was created with, in every later
\* state: after other registrations, failed registrations, authentications
\* and podcast appends; and every authenticate(u, p) actually made did so.
C1_RegisterThenAuthenticate ==
    /\ \A u \in DOMAIN registered :
          registered[u].known =>
             LET r == authenticate_user(users, u, registered[u].password)
             IN r.ok /\ r.id = registered[u].id
    /\ (/\ last.op = "authenticate"
        /\ registered[last.username].known
        /\ last.password = registered[last.username].password)
       => (last.ok /\ last.id = registered[last.username].id)

\* C1 witness: both accounts exist, one of them registered with a password
\* longer than bcrypt reads, a podcast was appended, and the second account
\* has just authenticated with its own password.
C1_Witness ==
    /\ Len(users) = 2
    /\ Len(podcasts) > 0
    /\ \E u \in DOMAIN registered :
          registered[u].known /\ Len(registered[u].password) > BCRYPT_MAX
    /\ last.op = "authenticate"
    /\ last.ok
    /\ last.id = 2
    /\ registered[last.username].known
    /\ last.password = registered[last.username].password

\* C2: register(u, p2) for a username that already exists (the storage
\* itself working) answers "Username already exists", creates no user and
\* leaves the account's identifier and hash as they were, so the original
\* password still authenticates and p2, when it differs, does not.
C2_DuplicateRegisterRejected ==
    (last.op = "register" /\ last.existed /\ ~last.ioFail) =>
        LET u == last.username
            first == registered[u]
        IN /\ ~last.ok
           /\ last.msg = MSG_DUP
           /\ Cardinality(UserRows(users, u)) = 1
           /\ Row(users, u).id = first.id
           /\ Row(users, u).password = first.hash
           /\ authenticate_user(users, u, first.password).ok
           /\ last.password # first.password =>
                 ~authenticate_user(users, u, last.password).ok

\* C4: listByUser(x) answers with exactly the rows owned by x, newest
\* first: a row inserted later (a larger rowid) stands before every row
\* inserted earlier, also when both carry the same created_at.
C4_ListNewestFirst ==
    last.op = "list" =>
        /\ {last.order[k] : k \in 1..Len(last.order)} = PodcastRows(podcasts, last.user_id)
        /\ Len(last.rows) = Cardinality(PodcastRows(podcasts, last.user_id))
        /\ \A i, j \in 1..Len(last.order) : i < j => last.order[i] > last.order[j]

(* ==================== claims on the login / sign-up page =============== *)
ValidationMessages ==
    {"Please fill in all fields", "Username must be at least 3 characters",
     "Password must be at least 6 characters", "Passwords do not match"}

\* C3: a login with a username that is not registered, or with a password
\* other than the one the username was registered with, fails, and changes
\* nothing: users and podcasts are as before and the session stays logged
\* out with no user id.
C3_WrongPasswordRejected ==
    [][run'.ev = "login" =>
         LET u == run'.args[1]
             p == run'.args[2]
         IN (~registered[u].known \/ registered[u].password # p) =>
               /\ ~session'.logged_in
               /\ session'.user_id = NoId
               /\ session' = session
               /\ users' = users
               /\ podcasts' = podcasts]_vars

\* C9: a sign-up submission reaches register_user only with a username of
\* at least 3 characters, a password of at least 6 and a confirmation equal
\* to the password; any other submission shows one validation message,
\* calls nothing and leaves users, podcasts and the session as they were.
C9_RegistrationValidated ==
    [][run'.ev = "register" =>
         LET u == run'.args[1]
             p == run'.args[2]
             c == run'.args[3]
             valid == Len(u) >= MIN_USERNAME /\ Len(p) >= MIN_PASSWORD /\ c = p
         IN /\ valid => run'.calls = <<"register_user">>
            /\ ~valid =>
                 /\ run'.calls = <<>>
                 /\ Len(run'.shown) = 1
                 /\ run'.shown[1][1] = "error"
                 /\ run'.shown[1][2] \in ValidationMessages
                 /\ users' = users
                 /\ registered' = registered
                 /\ podcasts' = podcasts
                 /\ session' = session]_vars

\* C9 witness: with an account in the store, a submission whose only fault
\* is the confirmation has just been turned away.
C9_Witness ==
    /\ Len(users) = 1
    /\ run.ev = "register"
    /\ Len(run.args[1]) >= MIN_USERNAME
    /\ Len(run.args[2]) >= MIN_PASSWORD
    /\ run.args[3] # run.args[2]
    /\ run.calls = <<>>
    /\ run.shown = <<Message("error", "Passwords do not match")>>

(* ===================== claims on the generator page ==================== *)
PipelineCalls ==
    {"PyPDFLoader", "open_read", "summarize_chain", "tts_primary", "tts_fallback",
     "save_podcast", "session_append"}

Calls(r) == {r.calls[i] : i \in 1..Len(r.calls)}

Count(seq, x) == Cardinality({i \in 1..Len(seq) : seq[i] = x})

Shown(r, level) == {i \in 1..Len(r.shown) : r.shown[i][1] = level}

\* the run that just ended held an upload of an accepted type above 10 MB
TooLargeHandled(r, file, drawn) ==
    /\ r.ev # "elsewhere"
    /\ "file_uploader" \in drawn
    /\ file.mime \in {PDF, TXT}
    /\ file.size > MAX_MB * KB * KB

\* C5: a run that handles an upload above 10 MB reports the rejection and
\* stops: no loader, summarizer or synthesis call, no save_podcast, no row
\* added, no Generate button, and the temporary copy it made is gone.
C5_TooLargeRejected ==
    [][TooLargeHandled(run', uploaded_file', widgets') =>
          /\ Calls(run') \cap PipelineCalls = {}
          /\ run'.saved = 0
          /\ podcasts' = podcasts
          /\ session'.session_podcasts = session.session_podcasts
          /\ audio_files' = audio_files
          /\ run'.shown[Len(run'.shown)] = Message("error", "File too large")
          /\ "generate_button" \notin widgets'
          /\ run'.tmp # 0
          /\ run'.tmp \notin tmp_files'
          /\ tmp_files' = tmp_files]_vars

\* C5 witness: a PDF of 10 MB + 1 byte has just been uploaded and turned away,
\* in a session that generated a podcast before.
C5_Witness ==
    /\ run.ev = "upload"
    /\ uploaded_file.size = MAX_MB * KB * KB + 1
    /\ run.tmp # 0
    /\ run.tmp \notin tmp_files
    /\ run.shown[Len(run.shown)] = Message("error", "File too large")
    /\ Len(session.session_podcasts) > 0

\* the pipeline ran in the run that just ended, with collaborators env
PipelineRan(r) == r.ev = "generate" /\ r.calls # <<>>

\* C6: in a pipeline run whose primary synthesis fails, the fallback is
\* called exactly once (and not at all when the primary succeeds, which is
\* called once either way), and when the fallback succeeds the path in the
\* saved row, in the session list and given to the player is the path the
\* fallback wrote, an existing file, and not the primary's .wav path.
C6_FallbackOnceAndItsPath ==
    (PipelineRan(run) /\ "tts_primary" \in Calls(run)) =>
        LET env == run.args[1]
            wav == audio_path_for(session.username, now)
            sp == session.session_podcasts
        IN /\ Count(run.calls, "tts_primary") = 1
           /\ Count(run.calls, "tts_fallback") = (IF env.primaryFails THEN 1 ELSE 0)
           /\ (env.primaryFails /\ ~env.fallbackFails) =>
                 /\ run.wrote # NoPath
                 /\ run.wrote # wav
                 /\ endswith(run.wrote, DOT_MP3)
                 /\ run.wrote \in audio_files
                 /\ run.played = run.wrote
                 /\ sp # <<>>
                 /\ sp[Len(sp)].audio = run.wrote
                 /\ run.saved # 0 => podcasts[run.saved].audio_path = run.wrote

\* C6 witness: the session of "b.wav" has just fallen back to gTTS and
\* saved the row.
C6_Witness ==
    /\ PipelineRan(run)
    /\ session.username = U_BWAV
    /\ run.args[1].primaryFails
    /\ Count(run.calls, "tts_fallback") = 1
    /\ run.saved # 0
    /\ podcasts[run.saved].audio_path = run.wrote
    /\ run.played = run.wrote

AllStepsSucceed(env) ==
    /\ ~env.extractFails
    /\ ~env.summarizeFails
    /\ ~(env.primaryFails /\ env.fallbackFails)
    /\ ~env.saveFails

IsPrefix(a, b) == Len(a) <= Len(b) /\ SubSeq(b, 1, Len(a)) = a

\* C7: a pipeline run in which every step succeeds adds exactly one row,
\* owned by the current user and pointing at an existing audio file; a run
\* in which a step fails reports the error, adds no row, adds nothing to the
\* session list and reports no success; the rows that existed stay as they
\* were either way.
C7_OneRecordOrNone ==
    [][PipelineRan(run') =>
          LET env == run'.args[1]
              new == podcasts'[Len(podcasts')]
          IN /\ IsPrefix(podcasts, podcasts')
             /\ AllStepsSucceed(env) =>
                   /\ Len(podcasts') = Len(podcasts) + 1
                   /\ new.user_id = session.user_id
                   /\ new.audio_path \in audio_files'
                   /\ Shown(run', "error") = {}
             /\ ~AllStepsSucceed(env) =>
                   /\ podcasts' = podcasts
                   /\ Shown(run', "error") # {}
                   /\ \A i \in Shown(run', "success") :
                         run'.shown[i] # Message("success", "Podcast generated successfully!")
                   /\ "session_append" \notin Calls(run')
                   /\ session'.session_podcasts = session.session_podcasts]_vars

\* C8: whenever a run of the script has ended, no temporary copy of an
\* upload is left on disk: not the one this run made, nor an earlier one.
C8_NoTempFileRemains ==
    /\ tmp_files = {}
    /\ run.tmp # 0 => run.tmp \notin tmp_files

\* C10: the Generate button is offered only for an upload sniffed as
\* application/pdf or text/plain, and the pipeline loads a file sniffed as
\* PDF with PyPDFLoader and a file sniffed as plain text by reading it,
\* whatever the extension of its name.
C10_LoaderBySniffedType ==
    /\ "generate_button" \in widgets => uploaded_file.mime \in {PDF, TXT}
    /\ PipelineRan(run) =>
          /\ uploaded_file.mime \in {PDF, TXT}
          /\ run.calls[1] = (IF uploaded_file.mime = PDF THEN "PyPDFLoader" ELSE "open_read")

(* ======================= claims on the session state =================== *)
\* the keys of the session state that hold data of the user
HoldsNoUserData(ss) ==
    /\ ss.username = <<>>
    /\ ss.user_id = NoId
    /\ ss.session_podcasts = <<>>
    /\ ss.mes = <<>>
    /\ ss.groq_api_key = <<>>
    /\ ~ss.api_key_validated

\* the last run was a login that succeeded
JustLoggedIn == run.ev = "login" /\ session.logged_in

\* C11: in every reachable session state logged_in is true exactly when
\* user_id is set; a logged-out session holds no user data (empty username,
\* no user_id, empty session podcast list, empty chat history, empty API
\* key, API key not validated); a login starts with an empty session
\* podcast list, only the greeting in the chat history and no API key,
\* validated or stored, of whoever used the session before; and
\* api_key_validated implies a non-empty stored API key.
C11_SessionInvariant ==
    /\ session.logged_in <=> session.user_id # NoId
    /\ ~session.logged_in => HoldsNoUserData(session)
    /\ JustLoggedIn =>
          /\ session.session_podcasts = <<>>
          /\ session.mes = <<GREETING>>
          /\ ~session.api_key_validated
          /\ session.groq_api_key = <<>>
    /\ session.api_key_validated => session.groq_api_key # <<>>

\* a second account has just logged in to a session in which the first one
\* validated an API key and generated a podcast (its row is in the table)
\* before logging out
C11_Witness ==
    /\ JustLoggedIn
    /\ \E i \in 1..Len(podcasts) : podcasts[i].user_id # session.user_id
====
